---------------------------- MODULE Spec2Model ----------------------------
(***************************************************************************)
(* Model of examples/esim_booking_bot.py: the EsimBookingBot booking flow. *)
(*                                                                         *)
(* State = the four dictionaries of EsimBookingBot (requests,              *)
(* user_requests, booked_slots, in_progress), the count of uuids drawn so  *)
(* far, the inline buttons the bot has sent to each chat (a callback query *)
(* can only carry the payload of a button the bot once sent; a button      *)
(* stays pressable after its message is edited, since a press and an edit  *)
(* can cross on the wire), the outbound messages of the handler that ran   *)
(* last, and the count of out-of-order button presses so far.              *)
(*                                                                         *)
(* One action per registered handler (_register_handlers); each runs to    *)
(* completion (TeleBot dispatches one update to one handler).              *)
(*                                                                         *)
(* Texts are sequences of one-character strings, so that strip, upper,     *)
(* len and indexing are computed as Python computes them.                  *)
(***************************************************************************)
EXTENDS Integers, Sequences, FiniteSets, TLC

(***************************************************************************)
(* Bounds of the model                                                     *)
(***************************************************************************)
NumUsers == 2     \* chats 1..NumUsers talk to the bot
NumDates == 1     \* days 1..NumDates can be resolved by the calendar widget
MaxIds == 2       \* uuid4() is drawn at most MaxIds times
SlotChoices == 1  \* users press only the first SlotChoices buttons of a slot list
MaxStale == 1     \* at most MaxStale calendar/slot presses arrive at a session not awaiting them

Users == 1..NumUsers
Dates == 1..NumDates
Ids == 1..MaxIds

(***************************************************************************)
(* Program constants                                                       *)
(***************************************************************************)
TIME_SLOTS == <<8, 10, 12, 14, 16>>

CATEGORIES ==
  << <<"N", "e", "w", " ", "r", "e", "g", "i", "s", "t", "r", "a", "t", "i", "o", "n">>,
     <<"M", "o", "b", "i", "l", "e", " ", "S", "I", "M", " ", "a", "c", "t", "i", "v", "a", "t", "i", "o", "n">>,
     <<"T", "e", "c", "h", "n", "i", "c", "a", "l", " ", "s", "u", "p", "p", "o", "r", "t">> >>

\* admin_chat_id: the chat the admin notifications go to (configured, not a user)
admin_chat_id == 0

Range(s) == {s[i] : i \in DOMAIN s}

(***************************************************************************)
(* Python values held in the progress dictionary                           *)
(***************************************************************************)
None == [k |-> "None"]
Str(s) == [k |-> "str", v |-> s]
Date(y, m, d) == [k |-> "date", y |-> y, m |-> m, d |-> d]
List(s) == [k |-> "list", v |-> s]

(***************************************************************************)
(* str methods                                                             *)
(***************************************************************************)
Whitespace == {" ", "\t", "\n", "\r"}
Digits == <<"0", "1", "2", "3", "4", "5", "6", "7", "8", "9">>
LowerCase == <<"a", "b", "c", "d", "e", "f", "g", "h", "i", "j", "k", "l", "m",
               "n", "o", "p", "q", "r", "s", "t", "u", "v", "w", "x", "y", "z">>
UpperCase == <<"A", "B", "C", "D", "E", "F", "G", "H", "I", "J", "K", "L", "M",
               "N", "O", "P", "Q", "R", "S", "T", "U", "V", "W", "X", "Y", "Z">>

IsDigit(c) == c \in Range(Digits)
DigitVal(c) == (CHOOSE i \in DOMAIN Digits : Digits[i] = c) - 1
IsAlnumChar(c) == c \in Range(Digits) \cup Range(LowerCase) \cup Range(UpperCase)

RECURSIVE LStrip(_)
LStrip(s) == IF s # <<>> /\ Head(s) \in Whitespace THEN LStrip(Tail(s)) ELSE s

RECURSIVE RStrip(_)
RStrip(s) ==
  IF s # <<>> /\ s[Len(s)] \in Whitespace THEN RStrip(SubSeq(s, 1, Len(s) - 1)) ELSE s

\* str.strip()
Strip(s) == RStrip(LStrip(s))

UpperChar(c) ==
  IF c \in Range(LowerCase)
    THEN UpperCase[CHOOSE i \in DOMAIN LowerCase : LowerCase[i] = c]
    ELSE c

\* str.upper()
Upper(s) == [i \in DOMAIN s |-> UpperChar(s[i])]

\* str.replace(" ", "")
RECURSIVE RemoveSpaces(_)
RemoveSpaces(s) ==
  IF s = <<>> THEN <<>>
  ELSE IF Head(s) = " " THEN RemoveSpaces(Tail(s))
  ELSE <<Head(s)>> \o RemoveSpaces(Tail(s))

\* str.isalnum(): non-empty and every character alphanumeric
IsAlnum(s) == s # <<>> /\ \A i \in DOMAIN s : IsAlnumChar(s[i])

(***************************************************************************)
(* datetime.strptime(text, "%d/%m/%Y").date()                              *)
(***************************************************************************)
SlashPositions(s) == {i \in DOMAIN s : s[i] = "/"}

RECURSIVE DecimalValue(_)
DecimalValue(s) ==
  IF s = <<>> THEN 0 ELSE 10 * DecimalValue(SubSeq(s, 1, Len(s) - 1)) + DigitVal(s[Len(s)])

AllDigits(s) == \A i \in DOMAIN s : IsDigit(s[i])

\* %d: 3[0-1]|[1-2]\d|0[1-9]|[1-9]| [1-9]
MatchesDay(s) ==
  \/ Len(s) = 2 /\ AllDigits(s) /\ DecimalValue(s) \in 1..31
  \/ Len(s) = 1 /\ AllDigits(s) /\ DecimalValue(s) \in 1..9
  \/ Len(s) = 2 /\ s[1] = " " /\ IsDigit(s[2]) /\ DigitVal(s[2]) \in 1..9

\* %m: 1[0-2]|0[1-9]|[1-9]
MatchesMonth(s) ==
  \/ Len(s) = 2 /\ AllDigits(s) /\ DecimalValue(s) \in 1..12
  \/ Len(s) = 1 /\ AllDigits(s) /\ DecimalValue(s) \in 1..9

\* %Y: \d\d\d\d
MatchesYear(s) == Len(s) = 4 /\ AllDigits(s)

IsLeap(y) == y % 4 = 0 /\ (y % 100 # 0 \/ y % 400 = 0)

DaysInMonth(y, m) ==
  IF m = 2 THEN (IF IsLeap(y) THEN 29 ELSE 28)
  ELSE IF m \in {4, 6, 9, 11} THEN 30 ELSE 31

\* The three parts of s around its two slashes (s has exactly two).
DayPart(s) == SubSeq(s, 1, (CHOOSE i \in SlashPositions(s) : \A j \in SlashPositions(s) : i <= j) - 1)
MonthPart(s) ==
  SubSeq(s, (CHOOSE i \in SlashPositions(s) : \A j \in SlashPositions(s) : i <= j) + 1,
            (CHOOSE i \in SlashPositions(s) : \A j \in SlashPositions(s) : i >= j) - 1)
YearPart(s) ==
  SubSeq(s, (CHOOSE i \in SlashPositions(s) : \A j \in SlashPositions(s) : i >= j) + 1, Len(s))

DayNumber(s) == DecimalValue(SelectSeq(DayPart(s), IsDigit))

\* strptime succeeds (no ValueError): the whole text matches the format and
\* names a day that exists (MINYEAR is 1).
StrptimeOk(s) ==
  /\ Cardinality(SlashPositions(s)) = 2
  /\ MatchesDay(DayPart(s))
  /\ MatchesMonth(MonthPart(s))
  /\ MatchesYear(YearPart(s))
  /\ DecimalValue(YearPart(s)) >= 1
  /\ DayNumber(s) <= DaysInMonth(DecimalValue(YearPart(s)), DecimalValue(MonthPart(s)))

StrptimeDate(s) == Date(DecimalValue(YearPart(s)), DecimalValue(MonthPart(s)), DayNumber(s))

(***************************************************************************)
(* Field validators: each returns (valid, value, error)                    *)
(***************************************************************************)
Result(valid, value, error) == [valid |-> valid, value |-> value, error |-> error]

\* _parse_required_text that reports every input as valid
_parse_required_text_lenient(raw) ==
  Result(TRUE, Str(Strip(raw)), "This field is required.")

_parse_required_text(raw) ==
  Result(Strip(raw) # <<>>, Str(Strip(raw)), "This field is required.")

_parse_optional_text(raw) ==
  Result(TRUE, IF Strip(raw) # <<>> THEN Str(Strip(raw)) ELSE None, "")

_parse_required_date(raw) ==
  IF StrptimeOk(Strip(raw))
    THEN Result(TRUE, StrptimeDate(Strip(raw)), "")
    ELSE Result(FALSE, None, "Invalid format. Use DD/MM/YYYY.")

_parse_optional_date(raw) ==
  IF Strip(raw) = <<>> THEN Result(TRUE, None, "")
  ELSE IF StrptimeOk(Strip(raw))
    THEN Result(TRUE, StrptimeDate(Strip(raw)), "")
    ELSE Result(FALSE, None, "Invalid format. Use DD/MM/YYYY.")

_parse_postal_code(raw) ==
  LET cleaned == Upper(Strip(raw))
      valid == /\ Len(cleaned) = 7
               /\ cleaned[4] = " "
               /\ IsAlnum(RemoveSpaces(cleaned))
  IN Result(valid, IF valid THEN Str(cleaned) ELSE None, "Please use the format A2A 1B4.")


(***************************************************************************)
(* form_fields: (key, prompt, parser) in the order the form asks them      *)
(***************************************************************************)
Field(key, prompt, parser) == [key |-> key, prompt |-> prompt, parser |-> parser]

form_fields ==
  << Field("first_name", "Enter your first name:", "required_text"),
     Field("middle_name", "Enter your middle name (leave blank if none):", "optional_text"),
     Field("last_name", "Enter your last name:", "required_text"),
     Field("dob", "Enter your date of birth [DD/MM/YYYY]:", "required_date"),
     Field("license", "Driver's license number (optional, leave blank if none):", "optional_text"),
     Field("license_issue", "License issue date [DD/MM/YYYY] (optional):", "optional_date"),
     Field("license_expiry", "License expiry date [DD/MM/YYYY] (optional):", "optional_date"),
     Field("suite", "Suite or unit number (leave blank if none):", "optional_text"),
     Field("street_number", "Street number:", "required_text"),
     Field("street_name", "Street name:", "required_text"),
     Field("city", "City:", "required_text"),
     Field("province", "Province:", "required_text"),
     Field("postal", "Postal code (format A2A 1B4):", "postal_code") >>

\* parser(message.text) for the parser bound in form_fields
Parse(parser, raw) ==
  CASE parser = "required_text" -> _parse_required_text(raw)
    [] parser = "optional_text" -> _parse_optional_text(raw)
    [] parser = "required_date" -> _parse_required_date(raw)
    [] parser = "optional_date" -> _parse_optional_date(raw)
    [] parser = "postal_code" -> _parse_postal_code(raw)

(***************************************************************************)
(* State                                                                   *)
(***************************************************************************)
VARIABLES
  requests,       \* self.requests: booking_id -> BookingRequest
  user_requests,  \* self.user_requests: user_id -> list of booking ids
  booked_slots,   \* self.booked_slots: date -> (time -> booking_id)
  in_progress,    \* self.in_progress: user_id -> progress dictionary
  uuids,          \* how many uuid4() values BookingRequest has drawn
  buttons,        \* <<chat, payload>> for every inline button the bot has sent
  out,            \* the outbound messages of the last handler: <<chat, text>>
  stale,          \* how many out-of-order calendar/slot presses have arrived
  threads,        \* user_id -> the locals of a handler a worker thread has not finished
  raw,            \* the argument of a validator called on its own
  returned        \* what that validator returned

vars == <<requests, user_requests, booked_slots, in_progress, uuids, buttons, out, stale,
          threads, raw, returned>>

\* Python None for progress["date"], progress["time"], progress["preview"]
NoDate == 0
NoTime == 0
NoPreview == [booking_id |-> 0]

\* An empty dict
EmptyDict == [x \in {} |-> 0]

\* dict[key] = value
Put(dict, key, value) == [x \in DOMAIN dict \cup {key} |-> IF x = key THEN value ELSE dict[x]]

\* dict.pop(key, None), as the dictionary that remains
Pop(dict, key) == [x \in DOMAIN dict \ {key} |-> dict[x]]

\* dict.get(key, default)
Get(dict, key, default) == IF key \in DOMAIN dict THEN dict[key] ELSE default

\* list.remove(x): removes the first occurrence
ListRemove(list, x) ==
  LET i == CHOOSE j \in DOMAIN list : list[j] = x /\ \A k \in 1..(j - 1) : list[k] # x
  IN SubSeq(list, 1, i - 1) \o SubSeq(list, i + 1, Len(list))

\* callback payloads: "slot:<date>:<time>", "slot:none", "confirm:<id>",
\* "cancel:<id>", "admin:<decision>:<id>", and the calendar widget's keys
SlotButton(day, slot) == <<"slot", day, slot>>
SlotNoneButton == <<"slot:none", 0, 0>>
ConfirmButton(id) == <<"confirm", id, 0>>
CancelButton(id) == <<"cancel", id, 0>>
AdminButton(decision, id) == <<decision, id, 0>>
CalendarButton == <<"calendar", 0, 0>>

\* the buttons after markup was sent to chat
Sent(chat, markup) == buttons \cup {<<chat, payload>> : payload \in markup}

\* the payloads chat can press
ButtonsOf(chat) == {b[2] : b \in {x \in buttons : x[1] = chat}}

\* {"stage": "category"}
NewProgress ==
  [stage |-> "category", category |-> None, date |-> NoDate, time |-> NoTime,
   field_index |-> 0, fields |-> EmptyDict, preview |-> NoPreview]

Init ==
  /\ requests = EmptyDict
  /\ user_requests = EmptyDict
  /\ booked_slots = EmptyDict
  /\ in_progress = EmptyDict
  /\ uuids = 0
  /\ buttons = {}
  /\ out = <<>>
  /\ stale = 0
  /\ threads = EmptyDict
  /\ raw = <<>>
  /\ returned = None

(***************************************************************************)
(* Slot registry and booking store                                         *)
(***************************************************************************)
\* _available_slots without the "not in booked_for_day" filter
_available_slots_unfiltered(chosen_date) == TIME_SLOTS

\* _available_slots that looks the slot up in booked_slots (keyed by date)
\* instead of booked_for_day
_available_slots_by_date(chosen_date) ==
  SelectSeq(TIME_SLOTS, LAMBDA slot : slot \notin DOMAIN booked_slots)

_available_slots(chosen_date) ==
  LET booked_for_day == Get(booked_slots, chosen_date, EmptyDict)
  IN SelectSeq(TIME_SLOTS, LAMBDA slot : slot \notin DOMAIN booked_for_day)

_time_slots_markup(chosen_date) ==
  IF _available_slots(chosen_date) # <<>>
    THEN {SlotButton(chosen_date, slot) : slot \in Range(_available_slots(chosen_date))}
    ELSE {SlotNoneButton}

\* _save_request: the four dictionaries after the request is saved
SaveRequests(request) == Put(requests, request.booking_id, request)
\* _save_request without the append to the user's list
SaveUserRequests_skipped(request) == user_requests

SaveUserRequests(request) ==
  Put(user_requests, request.user_id,
      Append(Get(user_requests, request.user_id, <<>>), request.booking_id))
SaveBookedSlots(request) ==
  Put(booked_slots, request.appointment_date,
      Put(Get(booked_slots, request.appointment_date, EmptyDict),
          request.time_slot, request.booking_id))
_reset_progress(user_id) == Pop(in_progress, user_id)

\* _cancel_request: the dictionaries after booking_id (which is in requests) is popped
\* _cancel_request that pops only a booking still awaiting the admin
CancelRequests_pending_only(booking_id) ==
  IF requests[booking_id].status = "pending_admin" THEN Pop(requests, booking_id) ELSE requests

CancelRequests(booking_id) == Pop(requests, booking_id)
\* _cancel_request without the release of the slot
CancelBookedSlots_kept(booking_id) == booked_slots

CancelBookedSlots(booking_id) ==
  LET request == requests[booking_id]
  IN IF request.appointment_date \in DOMAIN booked_slots
       THEN [booked_slots EXCEPT ![request.appointment_date] = Pop(@, request.time_slot)]
       ELSE booked_slots
\* _cancel_request that leaves the id in the user's list
CancelUserRequests_kept(booking_id) == user_requests

CancelUserRequests(booking_id) ==
  LET request == requests[booking_id]
  IN IF request.user_id \in DOMAIN user_requests
          /\ booking_id \in Range(user_requests[request.user_id])
       THEN [user_requests EXCEPT ![request.user_id] = ListRemove(@, booking_id)]
       ELSE user_requests


(***************************************************************************)
(* Handlers                                                                *)
(***************************************************************************)
Reply(chat, text) == <<chat, text>>

\* @message_handler(commands=["start"]): _reset_progress, then _send_main_menu,
\* a method the class does not define (AttributeError: nothing is sent)
start(u) ==
  /\ in_progress' = _reset_progress(u)
  /\ out' = <<>>
  /\ UNCHANGED <<requests, user_requests, booked_slots, uuids, buttons>>

\* "Create a booking": _start_booking_flow
begin_booking(u) ==
  /\ in_progress' = Put(in_progress, u, NewProgress)
  /\ out' = <<Reply(u, "Select the type of appointment:")>>
  /\ UNCHANGED <<requests, user_requests, booked_slots, uuids, buttons>>

\* "My bookings": _send_user_bookings
list_bookings(u) ==
  LET ids == Get(user_requests, u, <<>>)
      listed == {id \in Range(ids) : id \in DOMAIN requests}
  IN IF ids = <<>>
       THEN /\ out' = <<Reply(u, "No bookings yet. Tap 'Create a booking' to start.")>>
            /\ UNCHANGED <<requests, user_requests, booked_slots, in_progress, uuids, buttons>>
       ELSE /\ buttons' = Sent(u, {CancelButton(id) : id \in listed})
            /\ out' = <<Reply(u, "bookings")>>
            /\ UNCHANGED <<requests, user_requests, booked_slots, in_progress, uuids>>

\* "FAQ / TOS"
faq(u) ==
  /\ out' = <<Reply(u, "faq")>>
  /\ UNCHANGED <<requests, user_requests, booked_slots, in_progress, uuids, buttons>>

\* BookingRequest(...) as _prompt_confirmation builds it from progress
DraftRequest(chat_id, progress, booking_id) ==
  [ booking_id |-> booking_id,
    user_id |-> chat_id,
    category |-> IF progress.category = None THEN Str(<<>>) ELSE progress.category,
    appointment_date |-> progress.date,
    time_slot |-> progress.time,
    identity |->
      [ first_name |-> Get(progress.fields, "first_name", Str(<<>>)),
        middle_name |-> Get(progress.fields, "middle_name", None),
        last_name |-> Get(progress.fields, "last_name", Str(<<>>)),
        date_of_birth |-> Get(progress.fields, "dob", Date(0, 0, 0)),
        drivers_license |-> Get(progress.fields, "license", None),
        license_issue |-> Get(progress.fields, "license_issue", None),
        license_expiry |-> Get(progress.fields, "license_expiry", None) ],
    address |->
      [ suite |-> Get(progress.fields, "suite", None),
        street_number |-> Get(progress.fields, "street_number", Str(<<>>)),
        street_name |-> Get(progress.fields, "street_name", Str(<<>>)),
        city |-> Get(progress.fields, "city", Str(<<>>)),
        province |-> Get(progress.fields, "province", Str(<<>>)),
        postal_code |-> Get(progress.fields, "postal", Str(<<>>)) ],
    status |-> "pending_user" ]

\* request.summary() raises AttributeError when appointment_date is None
\* (display_date calls None.strftime); the handler then ends without sending.
SummaryRaises(request) == request.appointment_date = NoDate

\* _prompt_confirmation, for the progress the last field has just been stored in
_prompt_confirmation(chat_id, progress) ==
  LET request == DraftRequest(chat_id, progress, uuids + 1)
  IN /\ uuids < MaxIds
     /\ uuids' = uuids + 1
     /\ in_progress' = Put(in_progress, chat_id, [progress EXCEPT !.preview = request])
     /\ IF SummaryRaises(request)
          THEN /\ out' = <<>>
               /\ UNCHANGED buttons
          ELSE /\ buttons' = Sent(chat_id, {ConfirmButton(request.booking_id),
                                            CancelButton(request.booking_id)})
               /\ out' = <<Reply(chat_id, "summary: Confirm or cancel?")>>
     /\ UNCHANGED <<requests, user_requests, booked_slots>>

_handle_category(u, text) ==
  IF text \notin Range(CATEGORIES)
    THEN /\ out' = <<Reply(u, "Please select one of the listed categories.")>>
         /\ UNCHANGED <<requests, user_requests, booked_slots, in_progress, uuids, buttons>>
    ELSE /\ in_progress' = [in_progress EXCEPT ![u].category = Str(text), ![u].stage = "calendar"]
         /\ buttons' = Sent(u, {CalendarButton})
         /\ out' = <<Reply(u, "Select year")>>
         /\ UNCHANGED <<requests, user_requests, booked_slots, uuids>>

\* _handle_form_field that stores the parsed value before it looks at valid
_handle_form_field_storing(u, text) ==
  LET progress == in_progress[u]
      index == progress.field_index
      entry == form_fields[index + 1]
      parsed == Parse(entry.parser, text)
      stored == [progress EXCEPT !.fields = Put(@, entry.key, parsed.value)]
  IN IF ~parsed.valid
       THEN /\ in_progress' = Put(in_progress, u, stored)
            /\ out' = <<Reply(u, IF parsed.error # "" THEN parsed.error ELSE entry.prompt)>>
            /\ UNCHANGED <<requests, user_requests, booked_slots, uuids, buttons>>
       ELSE IF index + 1 >= Len(form_fields)
         THEN _prompt_confirmation(u, stored)
         ELSE /\ in_progress' = Put(in_progress, u, [stored EXCEPT !.field_index = index + 1])
              /\ out' = <<Reply(u, form_fields[index + 2].prompt)>>
              /\ UNCHANGED <<requests, user_requests, booked_slots, uuids, buttons>>

_handle_form_field(u, text) ==
  LET progress == in_progress[u]
      index == progress.field_index
      entry == form_fields[index + 1]
      parsed == Parse(entry.parser, text)
      stored == [progress EXCEPT !.fields = Put(@, entry.key, parsed.value)]
  IN IF ~parsed.valid
       THEN /\ out' = <<Reply(u, IF parsed.error # "" THEN parsed.error ELSE entry.prompt)>>
            /\ UNCHANGED <<requests, user_requests, booked_slots, in_progress, uuids, buttons>>
       ELSE IF index + 1 >= Len(form_fields)
         THEN _prompt_confirmation(u, stored)
         ELSE /\ in_progress' = Put(in_progress, u, [stored EXCEPT !.field_index = index + 1])
              /\ out' = <<Reply(u, form_fields[index + 2].prompt)>>
              /\ UNCHANGED <<requests, user_requests, booked_slots, uuids, buttons>>

\* any other text: _route_message
text_flow(u, text) ==
  IF u \notin DOMAIN in_progress
    THEN /\ out' = <<Reply(u, "Use the menu to begin a booking or view FAQs.")>>
         /\ UNCHANGED <<requests, user_requests, booked_slots, in_progress, uuids, buttons>>
  ELSE IF in_progress[u].stage = "category" THEN _handle_category(u, text)
  ELSE IF in_progress[u].stage = "fields" THEN _handle_form_field(u, text)
  ELSE /\ out' = <<Reply(u, "Please follow the prompts in order.")>>
       /\ UNCHANGED <<requests, user_requests, booked_slots, in_progress, uuids, buttons>>

\* calendar callback: _handle_calendar_selection. The widget's process() gives
\* a resolved date (result), or a keyboard for the next step (key), or neither.
handle_calendar(u, result, key) ==
  IF result = NoDate /\ key
    THEN /\ out' = <<Reply(u, "Select month")>>
         /\ UNCHANGED <<requests, user_requests, booked_slots, in_progress, uuids, buttons>>
  ELSE IF result = NoDate \/ u \notin DOMAIN in_progress
    THEN /\ out' = <<>>
         /\ UNCHANGED <<requests, user_requests, booked_slots, in_progress, uuids, buttons>>
  ELSE /\ in_progress' = [in_progress EXCEPT ![u].date = result, ![u].stage = "time"]
       /\ buttons' = Sent(u, _time_slots_markup(result))
       /\ out' = <<Reply(u, "Chosen date. Select a time slot:")>>
       /\ UNCHANGED <<requests, user_requests, booked_slots, uuids>>

\* "slot:..." callback: _handle_time_selection
handle_time_slot(u, payload) ==
  LET chosen_date == payload[2]
      slot_time == payload[3]
  IN IF payload = SlotNoneButton
       THEN /\ out' = <<Reply(u, "No slots for that date. Choose another.")>>
            /\ UNCHANGED <<requests, user_requests, booked_slots, in_progress, uuids, buttons>>
     ELSE IF slot_time \notin Range(_available_slots(chosen_date))
       THEN /\ buttons' = Sent(u, _time_slots_markup(chosen_date))
            /\ out' = <<Reply(u, "Slot already booked. Please choose another.")>>
            /\ UNCHANGED <<requests, user_requests, booked_slots, in_progress, uuids>>
     ELSE IF u \notin DOMAIN in_progress
       THEN /\ out' = <<>>
            /\ UNCHANGED <<requests, user_requests, booked_slots, in_progress, uuids, buttons>>
     ELSE /\ in_progress' = [in_progress EXCEPT ![u].time = slot_time, ![u].stage = "fields",
                                                ![u].field_index = 0]
          /\ out' = <<Reply(u, "Time slot selected."), Reply(u, form_fields[1].prompt)>>
          /\ UNCHANGED <<requests, user_requests, booked_slots, uuids, buttons>>

\* _notify_admin: the buttons sent to the admin chat
_notify_admin(request) ==
  {AdminButton("accept", request.booking_id), AdminButton("deny", request.booking_id)}

\* _finalize_booking that leaves the stage alone on a conflict
ConflictStage_fields == "fields"

\* progress.update({"stage": "time"}) when the draft's slot is taken
ConflictStage == "time"

\* "confirm:<booking_id>" callback: _finalize_booking
handle_confirmation(u, booking_id) ==
  LET request == IF u \in DOMAIN in_progress THEN in_progress[u].preview ELSE NoPreview
      submitted == [request EXCEPT !.status = "pending_admin"]
  IN IF request = NoPreview \/ request.booking_id # booking_id
       THEN /\ out' = <<Reply(u, "Booking preview not found.")>>
            /\ UNCHANGED <<requests, user_requests, booked_slots, in_progress, uuids, buttons>>
     ELSE IF request.time_slot \notin Range(_available_slots(request.appointment_date))
       THEN /\ in_progress' = [in_progress EXCEPT ![u].stage = ConflictStage]
            /\ buttons' = Sent(u, _time_slots_markup(request.appointment_date))
            /\ out' = <<Reply(u, "Slot already taken. Choose another time."),
                        Reply(u, "Select a new time:")>>
            /\ UNCHANGED <<requests, user_requests, booked_slots, uuids>>
     ELSE /\ requests' = SaveRequests(submitted)
          /\ user_requests' = SaveUserRequests(submitted)
          /\ booked_slots' = SaveBookedSlots(submitted)
          /\ in_progress' = _reset_progress(submitted.user_id)
          /\ buttons' = Sent(admin_chat_id, _notify_admin(submitted))
          /\ out' = <<Reply(u, "Booking submitted. The administrator will confirm your request."),
                      Reply(admin_chat_id, "New booking request")>>
          /\ UNCHANGED uuids

\* _cancel_booking with the two texts exchanged
CancelNotice_swapped(canceled) == IF canceled THEN "Nothing to cancel." ELSE "Booking canceled."

\* the text _cancel_booking edits the message to
CancelNotice(canceled) == IF canceled THEN "Booking canceled." ELSE "Nothing to cancel."

\* "cancel:<booking_id>" callback: _cancel_booking
handle_cancel(u, booking_id) ==
  IF booking_id \notin DOMAIN requests
    THEN /\ out' = <<Reply(u, CancelNotice(FALSE))>>
         /\ UNCHANGED <<requests, user_requests, booked_slots, in_progress, uuids, buttons>>
    ELSE /\ requests' = CancelRequests(booking_id)
         /\ booked_slots' = CancelBookedSlots(booking_id)
         /\ user_requests' = CancelUserRequests(booking_id)
         /\ out' = <<Reply(u, CancelNotice(TRUE))>>
         /\ UNCHANGED <<in_progress, uuids, buttons>>

\* request.status after the admin's decision
DecidedStatus(request, decision) == IF decision = "accept" THEN "accepted" ELSE "denied"

\* _admin_decision without the "not found" return
AdminNotices_unchecked(decision, booking_id) ==
  <<Reply(admin_chat_id, "Booking " \o decision \o "ed"),
    Reply(IF booking_id \in DOMAIN requests THEN requests[booking_id].user_id ELSE 1,
          "Your booking has been " \o decision \o "ed.")>>

\* the messages _admin_decision sends
AdminNotices(decision, booking_id) ==
  IF booking_id \notin DOMAIN requests
    THEN <<Reply(admin_chat_id, "Booking not found.")>>
    ELSE <<Reply(admin_chat_id, "Booking " \o decision \o "ed"),
           Reply(requests[booking_id].user_id, "Your booking has been " \o decision \o "ed.")>>

\* _admin_decision that releases the slot of a booking it denies
handle_admin_releasing(decision, booking_id) ==
  IF booking_id \notin DOMAIN requests
    THEN /\ out' = AdminNotices(decision, booking_id)
         /\ UNCHANGED <<requests, user_requests, booked_slots, in_progress, uuids, buttons>>
    ELSE /\ requests' = [requests EXCEPT ![booking_id].status = DecidedStatus(@, decision)]
         /\ booked_slots' = IF decision = "deny" THEN CancelBookedSlots(booking_id)
                            ELSE booked_slots
         /\ out' = AdminNotices(decision, booking_id)
         /\ UNCHANGED <<user_requests, in_progress, uuids, buttons>>

\* "admin:<decision>:<booking_id>" callback: _admin_decision
handle_admin(decision, booking_id) ==
  IF booking_id \notin DOMAIN requests
    THEN /\ out' = AdminNotices(decision, booking_id)
         /\ UNCHANGED <<requests, user_requests, booked_slots, in_progress, uuids, buttons>>
    ELSE /\ requests' = [requests EXCEPT ![booking_id].status = DecidedStatus(@, decision)]
         /\ out' = AdminNotices(decision, booking_id)
         /\ UNCHANGED <<user_requests, booked_slots, in_progress, uuids, buttons>>

(***************************************************************************)
(* The texts and button presses users send                                 *)
(***************************************************************************)
Hello == <<"H", "e", "l", "l", "o">>
Blank == <<" ">>
GoodDate == <<"0", "1", "/", "0", "2", "/", "2", "0", "0", "0">>
BadDate == <<"3", "1", "/", "0", "2", "/", "2", "0", "0", "0">>

\* What the modelled user answers to the prompt of each form field
FieldAnswers ==
  << {<<"A", "n", "n">>, Blank},                         \* first_name
     {Blank},                                            \* middle_name
     {<<"L", "e", "e">>},                                \* last_name
     {GoodDate, BadDate},                                \* dob
     {<<"X", "1">>},                                     \* license
     {Blank, BadDate},                                   \* license_issue
     {GoodDate},                                         \* license_expiry
     {Blank},                                            \* suite
     {<<"1", "2">>},                                     \* street_number
     {<<"M", "a", "i", "n">>},                           \* street_name
     {<<"O", "t", "t", "a", "w", "a">>},                 \* city
     {<<"O", "N">>},                                     \* province
     {<<"a", "2", "a", " ", "1", "b", "4">>, <<"A", "2", "A", "1", "B", "4">>} >> \* postal

\* User u is between two of the steps that read or write the stores: has no
\* session, is choosing a time slot, or holds a draft to confirm or cancel
AtRest(u) ==
  IF u \notin DOMAIN in_progress THEN TRUE
  ELSE IF in_progress[u].stage = "time" THEN TRUE
  ELSE /\ in_progress[u].stage = "fields"
       /\ in_progress[u].field_index = Len(form_fields) - 1
       /\ in_progress[u].preview # NoPreview

\* The steps from "Create a booking" to the calendar, and from the first form
\* prompt to the draft, touch only the user's own session: the model lets one
\* user at a time take them, the other users being at rest.
MayAct(u) == \A v \in Users \ {u} : AtRest(v)

\* User u may press a button: the modelled user answers the form's prompts
\* with texts, and presses buttons before the form or once the draft is shown
MayPress(u) ==
  /\ MayAct(u)
  /\ (u \in DOMAIN in_progress /\ in_progress[u].stage = "fields") => AtRest(u)

\* The texts user u may type in the current state
Typed(u) ==
  IF u \notin DOMAIN in_progress THEN {Hello}
  ELSE IF in_progress[u].stage = "category" THEN {CATEGORIES[1], Hello}
  ELSE IF in_progress[u].stage = "fields" THEN FieldAnswers[in_progress[u].field_index + 1]
  ELSE {Hello}

\* The slot buttons of chat u that the modelled user presses
PressableSlots(u) ==
  {b \in ButtonsOf(u) : b = SlotNoneButton
                        \/ (b[1] = "slot" /\ \E i \in 1..SlotChoices : TIME_SLOTS[i] = b[3])}

\* A press of a calendar button (stage "calendar") or a slot button (stage
\* "time") arrives in order when the user's session awaits it
InOrder(u, stage) == u \in DOMAIN in_progress /\ in_progress[u].stage = stage

\* stale after a press by u that stage awaits
Counted(u, stage) == IF InOrder(u, stage) THEN stale ELSE stale + 1

Next ==
  \/ \E u \in Users : MayAct(u) /\ start(u) /\ UNCHANGED <<stale, threads, raw, returned>>
  \/ \E u \in Users : MayAct(u) /\ begin_booking(u) /\ UNCHANGED <<stale, threads, raw, returned>>
  \/ \E u \in Users : MayAct(u) /\ list_bookings(u) /\ UNCHANGED <<stale, threads, raw, returned>>
  \/ \E u \in Users : MayAct(u) /\ faq(u) /\ UNCHANGED <<stale, threads, raw, returned>>
  \/ \E u \in Users : \E text \in Typed(u) :
       /\ MayAct(u)
       /\ text_flow(u, text)
       /\ UNCHANGED <<stale, threads, raw, returned>>
  \/ \E u \in Users : \E result \in Dates \cup {NoDate} : \E key \in BOOLEAN :
       /\ MayPress(u)
       /\ CalendarButton \in ButtonsOf(u)
       /\ result # NoDate => ~key
       /\ Counted(u, "calendar") <= MaxStale
       /\ stale' = Counted(u, "calendar")
       /\ handle_calendar(u, result, key)
       /\ UNCHANGED <<threads, raw, returned>>
  \/ \E u \in Users : \E payload \in PressableSlots(u) :
       /\ MayPress(u)
       /\ Counted(u, "time") <= MaxStale
       /\ stale' = Counted(u, "time")
       /\ handle_time_slot(u, payload)
       /\ UNCHANGED <<threads, raw, returned>>
  \/ \E u \in Users : \E id \in Ids :
       /\ MayPress(u)
       /\ ConfirmButton(id) \in ButtonsOf(u)
       /\ handle_confirmation(u, id)
       /\ UNCHANGED <<stale, threads, raw, returned>>
  \/ \E u \in Users : \E id \in Ids :
       /\ MayPress(u)
       /\ CancelButton(id) \in ButtonsOf(u)
       /\ handle_cancel(u, id)
       /\ UNCHANGED <<stale, threads, raw, returned>>
  \/ \E decision \in {"accept", "deny"} : \E id \in Ids :
       /\ \A v \in Users : AtRest(v)
       /\ AdminButton(decision, id) \in ButtonsOf(admin_chat_id)
       /\ handle_admin(decision, id)
       /\ UNCHANGED <<stale, threads, raw, returned>>

Spec == Init /\ [][Next]_vars


(***************************************************************************)
(* Steps and state descriptions used by the properties                     *)
(***************************************************************************)
\* user u presses the Confirm button of draft id
ConfirmPress(u, id) == ConfirmButton(id) \in ButtonsOf(u) /\ handle_confirmation(u, id)

\* user u presses a Cancel button for booking id
CancelPress(u, id) == CancelButton(id) \in ButtonsOf(u) /\ handle_cancel(u, id)

\* the admin presses Accept or Deny for booking id
AdminPress(decision, id) ==
  AdminButton(decision, id) \in ButtonsOf(admin_chat_id) /\ handle_admin(decision, id)

\* the session of u holds the draft id
HoldsDraft(u, id) == u \in DOMAIN in_progress /\ in_progress[u].preview.booking_id = id

\* the (date, slot) pair is in the slot registry
Reserved(day, slot) == day \in DOMAIN booked_slots /\ slot \in DOMAIN booked_slots[day]

\* the (date, slot) pair of a request
Pair(request) == <<request.appointment_date, request.time_slot>>

\* booking id was saved at some time (the admin was notified of it)
EverSaved(id) == AdminButton("accept", id) \in ButtonsOf(admin_chat_id)

C5_StageOrder ==
  [][\A u \in DOMAIN in_progress :
       u \in DOMAIN in_progress'
       => /\ (in_progress'[u].stage = "time" /\ in_progress[u].stage # "time")
             => \/ in_progress[u].stage = "calendar"
                \/ \E id \in Ids : ConfirmPress(u, id) /\ HoldsDraft(u, id)
          /\ (in_progress'[u].stage = "fields" /\ in_progress[u].stage # "fields")
             => in_progress[u].stage = "time"
    ]_vars

TextSent(u, text) == text_flow(u, text)

\* the session of u awaits the answer to form field number index (from 0)
AtField(u, index) ==
  /\ u \in DOMAIN in_progress
  /\ in_progress[u].stage = "fields"
  /\ in_progress[u].field_index = index

\* the validator of form field number index (from 0) rejects text
Rejects(index, text) == ~Parse(form_fields[index + 1].parser, text).valid

\* every text the modelled users answer a form prompt with
Answers == UNION {FieldAnswers[i] : i \in DOMAIN FieldAnswers}

NonEmpty(value) == value.k = "str" /\ value.v # <<>>

\* the keys of the first n form fields
FirstKeys(n) == {form_fields[i].key : i \in 1..n}

\* the drafts the sessions hold and the bookings in the store
Drafts == {in_progress[u].preview : u \in {v \in DOMAIN in_progress : in_progress[v].preview # NoPreview}}
Stored == {requests[id] : id \in DOMAIN requests}

\* the required fields of a request are filled in
RequiredFilled(request) ==
  /\ NonEmpty(request.identity.first_name)
  /\ NonEmpty(request.identity.last_name)
  /\ request.identity.date_of_birth.k = "date"
  /\ request.identity.date_of_birth # Date(0, 0, 0)
  /\ NonEmpty(request.address.street_number)
  /\ NonEmpty(request.address.street_name)
  /\ NonEmpty(request.address.city)
  /\ NonEmpty(request.address.province)
  /\ NonEmpty(request.address.postal_code)
  /\ _parse_postal_code(request.address.postal_code.v).valid

AwaitsButton(u) ==
  IF u \notin DOMAIN in_progress THEN TRUE
  ELSE IF in_progress[u].stage \in {"calendar", "time"} THEN TRUE
  ELSE /\ in_progress[u].stage = "fields"
       /\ in_progress[u].field_index = Len(form_fields) - 1
       /\ in_progress[u].preview # NoPreview

SoloNumDates == 2
SoloDates == 1..SoloNumDates
SoloUser == CHOOSE u \in Users : \A v \in Users : u <= v

SoloNext ==
  \/ /\ MayAct(SoloUser)
     /\ begin_booking(SoloUser)
     /\ UNCHANGED <<stale, threads, raw, returned>>
  \/ \E text \in Typed(SoloUser) :
       /\ MayAct(SoloUser)
       /\ text_flow(SoloUser, text)
       /\ UNCHANGED <<stale, threads, raw, returned>>
  \/ \E result \in SoloDates :
       /\ MayPress(SoloUser)
       /\ CalendarButton \in ButtonsOf(SoloUser)
       /\ Counted(SoloUser, "calendar") <= MaxStale
       /\ stale' = Counted(SoloUser, "calendar")
       /\ handle_calendar(SoloUser, result, FALSE)
       /\ UNCHANGED <<threads, raw, returned>>
  \/ \E payload \in PressableSlots(SoloUser) :
       /\ MayPress(SoloUser)
       /\ Counted(SoloUser, "time") <= MaxStale
       /\ stale' = Counted(SoloUser, "time")
       /\ handle_time_slot(SoloUser, payload)
       /\ UNCHANGED <<threads, raw, returned>>
  \/ \E id \in Ids :
       /\ MayPress(SoloUser)
       /\ ConfirmButton(id) \in ButtonsOf(SoloUser)
       /\ handle_confirmation(SoloUser, id)
       /\ UNCHANGED <<stale, threads, raw, returned>>

SoloSpec == Init /\ [][SoloNext]_vars

\* user u presses the slot button payload
SlotPress(u, payload) == payload \in ButtonsOf(u) /\ handle_time_slot(u, payload)

ReservedFor(day) == {slot \in Range(TIME_SLOTS) : Reserved(day, slot)}
Place(slot) == CHOOSE i \in DOMAIN TIME_SLOTS : TIME_SLOTS[i] = slot

(***************************************************************************)
(* _available_slots called on its own. The registry states it is called in *)
(* are those one user leaves after booking any set of (date, slot) pairs,  *)
(* one after the other, and canceling some of them again.                   *)
(***************************************************************************)
\* the progress dictionary of a user who chose day and slot and answered the form
FilledProgress(day, slot) ==
  [NewProgress EXCEPT
     !.stage = "fields", !.category = Str(CATEGORIES[1]), !.date = day, !.time = slot,
     !.field_index = Len(form_fields) - 1,
     !.fields = [key \in FirstKeys(Len(form_fields)) |->
                   LET i == CHOOSE j \in DOMAIN form_fields : form_fields[j].key = key
                       answer == CHOOSE text \in FieldAnswers[i] :
                                   Parse(form_fields[i].parser, text).valid
                   IN Parse(form_fields[i].parser, answer).value]]

\* the booking ids in the order the bookings were made: by date, then by slot
BookingNumber(day, slot) == (day - 1) * Len(TIME_SLOTS) + Place(slot)
PairOf(id) ==
  CHOOSE pair \in SoloDates \X Range(TIME_SLOTS) : BookingNumber(pair[1], pair[2]) = id

\* the booking the user made for the pair numbered id
BookingOf(id) ==
  [DraftRequest(SoloUser, FilledProgress(PairOf(id)[1], PairOf(id)[2]), id)
     EXCEPT !.status = "pending_admin"]

\* the ids of a set, as the list _save_request has appended them to
RECURSIVE Appended(_)
Appended(ids) ==
  IF ids = {} THEN <<>>
  ELSE LET last == CHOOSE id \in ids : \A other \in ids : other <= id
       IN Append(Appended(ids \ {last}), last)

\* the stores after the user booked the pairs of kept, and booked and
\* canceled again on the dates of emptied
RegistryInit ==
  \E kept \in SUBSET (SoloDates \X Range(TIME_SLOTS)) :
  \E emptied \in SUBSET (SoloDates \ {pair[1] : pair \in kept}) :
    LET ids == {BookingNumber(pair[1], pair[2]) : pair \in kept}
    IN /\ requests = [id \in ids |-> BookingOf(id)]
       /\ user_requests = IF kept = {} /\ emptied = {} THEN EmptyDict
                          ELSE [u \in {SoloUser} |-> Appended(ids)]
       /\ booked_slots =
            [day \in {pair[1] : pair \in kept} \cup emptied |->
               [slot \in {pair[2] : pair \in {q \in kept : q[1] = day}} |->
                  BookingNumber(day, slot)]]
       /\ in_progress = EmptyDict
       /\ uuids = Cardinality(SoloDates \X Range(TIME_SLOTS))
       /\ buttons = {}
       /\ out = <<>>
       /\ stale = 0
       /\ threads = EmptyDict
       /\ raw = <<>>
       /\ returned = None

\* a call of _available_slots(chosen_date)
CallAvailableSlots ==
  \E chosen_date \in SoloDates :
    /\ raw' = chosen_date
    /\ returned' = List(_available_slots(chosen_date))
    /\ UNCHANGED <<requests, user_requests, booked_slots, in_progress, uuids, buttons,
                   out, stale, threads>>

RegistrySpec == RegistryInit /\ [][CallAvailableSlots]_vars

(***************************************************************************)
(* C16: in every reachable registry state and for every date d,            *)
(* _available_slots(d) holds exactly the slots of TIME_SLOTS that are not  *)
(* reserved for d, each once and in the order of TIME_SLOTS (all five when *)
(* none is reserved); and that is what a call returns.                     *)
(***************************************************************************)
C16_AvailableSlotsExact ==
  /\ \A day \in SoloDates :
       LET available == _available_slots(day)
       IN /\ Range(available) = Range(TIME_SLOTS) \ ReservedFor(day)
          /\ \A i \in DOMAIN available : \A j \in DOMAIN available :
               i < j => Place(available[i]) < Place(available[j])
          /\ ReservedFor(day) = {} => available = TIME_SLOTS
  /\ returned # None
       => /\ Range(returned.v) = Range(TIME_SLOTS) \ ReservedFor(raw)
          /\ Len(returned.v) = Cardinality(Range(returned.v))

\* a call for a date with the first, third and fifth slot reserved has
\* returned the second and the fourth
C16_Witness ==
  /\ returned = List(<<TIME_SLOTS[2], TIME_SLOTS[4]>>)
  /\ ReservedFor(raw) = {TIME_SLOTS[1], TIME_SLOTS[3], TIME_SLOTS[5]}

(***************************************************************************)
(* _parse_postal_code called on its own, on every text of up to            *)
(* MaxPostalLen characters of PostalAlphabet                               *)
(***************************************************************************)
MaxPostalLen == 8
PostalAlphabet == {"a", "2", " ", "-"}
PostalInputs == UNION {[1..n -> PostalAlphabet] : n \in 0..MaxPostalLen}

PostalInit ==
  /\ requests = EmptyDict
  /\ user_requests = EmptyDict
  /\ booked_slots = EmptyDict
  /\ in_progress = EmptyDict
  /\ uuids = 0
  /\ buttons = {}
  /\ out = <<>>
  /\ stale = 0
  /\ threads = EmptyDict
  /\ raw \in PostalInputs
  /\ returned = None

\* a call of _parse_postal_code(raw)
CallParsePostalCode ==
  /\ returned = None
  /\ returned' = _parse_postal_code(raw)
  /\ UNCHANGED <<requests, user_requests, booked_slots, in_progress, uuids, buttons,
                 out, stale, threads, raw>>

PostalSpec == PostalInit /\ [][CallParsePostalCode]_vars

\* the format the validator is described to accept: seven characters, the
\* fourth a space, the other six alphanumeric
PostalFormat(cleaned) ==
  /\ Len(cleaned) = 7
  /\ cleaned[4] = " "
  /\ \A i \in {1, 2, 3, 5, 6, 7} : IsAlnumChar(cleaned[i])

(***************************************************************************)
(* C17: _parse_postal_code succeeds on a raw input if and only if the      *)
(* trimmed, uppercased string has exactly 7 characters, its 4th character  *)
(* is a space and each of the other six is alphanumeric; on success it     *)
(* returns the cleaned string.                                             *)
(***************************************************************************)
C17_PostalFormatExact ==
  returned # None
  => /\ returned.valid <=> PostalFormat(Upper(Strip(raw)))
     /\ returned.valid => returned.value = Str(Upper(Strip(raw)))

(***************************************************************************)
(* Handlers on worker threads. telebot.TeleBot(token) is built with its     *)
(* default threaded=True, so polling hands each update to a pool of worker *)
(* threads and the handlers of two updates can interleave. The confirm      *)
(* handler is taken in two steps: the check of the draft and of the slot's *)
(* availability (lines 198-208), and the save (lines 209-212).             *)
(***************************************************************************)
\* _finalize_booking up to the availability check; a draft that passes is
\* held by the thread until its save
_finalize_booking_check(u, booking_id) ==
  LET request == IF u \in DOMAIN in_progress THEN in_progress[u].preview ELSE NoPreview
  IN IF request = NoPreview
       THEN /\ out' = <<Reply(u, "Booking preview not found.")>>
            /\ UNCHANGED <<requests, user_requests, booked_slots, in_progress, uuids, buttons,
                           threads>>
     ELSE IF request.booking_id # booking_id
       THEN /\ out' = <<Reply(u, "Booking preview not found.")>>
            /\ UNCHANGED <<requests, user_requests, booked_slots, in_progress, uuids, buttons,
                           threads>>
     ELSE IF request.time_slot \notin Range(_available_slots(request.appointment_date))
       THEN /\ in_progress' = [in_progress EXCEPT ![u].stage = ConflictStage]
            /\ buttons' = Sent(u, _time_slots_markup(request.appointment_date))
            /\ out' = <<Reply(u, "Slot already taken. Choose another time."),
                        Reply(u, "Select a new time:")>>
            /\ UNCHANGED <<requests, user_requests, booked_slots, uuids, threads>>
     ELSE /\ threads' = Put(threads, u, [request |-> request])
          /\ out' = <<>>
          /\ UNCHANGED <<requests, user_requests, booked_slots, in_progress, uuids, buttons>>

\* the rest of _finalize_booking: status, _save_request, the messages
_finalize_booking_save(u) ==
  LET submitted == [threads[u].request EXCEPT !.status = "pending_admin"]
  IN /\ requests' = SaveRequests(submitted)
     /\ user_requests' = SaveUserRequests(submitted)
     /\ booked_slots' = SaveBookedSlots(submitted)
     /\ in_progress' = _reset_progress(submitted.user_id)
     /\ buttons' = Sent(admin_chat_id, _notify_admin(submitted))
     /\ out' = <<Reply(u, "Booking submitted. The administrator will confirm your request."),
                 Reply(admin_chat_id, "New booking request")>>
     /\ threads' = Pop(threads, u)
     /\ UNCHANGED uuids

ThreadedNext ==
  \/ \E u \in Users :
       /\ MayAct(u)
       /\ begin_booking(u)
       /\ UNCHANGED <<stale, threads, raw, returned>>
  \/ \E u \in Users : \E text \in Typed(u) :
       /\ MayAct(u)
       /\ text_flow(u, text)
       /\ UNCHANGED <<stale, threads, raw, returned>>
  \/ \E u \in Users : \E result \in Dates :
       /\ MayPress(u)
       /\ CalendarButton \in ButtonsOf(u)
       /\ Counted(u, "calendar") <= MaxStale
       /\ stale' = Counted(u, "calendar")
       /\ handle_calendar(u, result, FALSE)
       /\ UNCHANGED <<threads, raw, returned>>
  \/ \E u \in Users : \E payload \in PressableSlots(u) :
       /\ MayPress(u)
       /\ Counted(u, "time") <= MaxStale
       /\ stale' = Counted(u, "time")
       /\ handle_time_slot(u, payload)
       /\ UNCHANGED <<threads, raw, returned>>
  \/ \E u \in Users : \E id \in Ids :
       /\ MayPress(u)
       /\ u \notin DOMAIN threads
       /\ ConfirmButton(id) \in ButtonsOf(u)
       /\ _finalize_booking_check(u, id)
       /\ UNCHANGED <<stale, raw, returned>>
  \/ \E u \in DOMAIN threads :
       /\ _finalize_booking_save(u)
       /\ UNCHANGED <<stale, raw, returned>>

ThreadedSpec == Init /\ [][ThreadedNext]_vars

\* the bookings in the store for a (date, slot) pair
BookingsFor(day, slot) == {id \in DOMAIN requests : Pair(requests[id]) = <<day, slot>>}

Occurrences(list, id) == Cardinality({i \in DOMAIN list : list[i] = id})

=============================================================================
